---- MODULE Spec2Model ----
(***************************************************************************)
(* A model of the invoice extraction backend (src/backend/invoice_ocr_api.py): *)
(* the regular-expression field extractor, the line-item reconstructor, the  *)
(* CSV report builder, and the two REST handlers with the in-memory store.   *)
(*                                                                           *)
(* Text is modelled as TLA+ strings, character by character: Len, SubSeq and *)
(* \o act on strings as Python's len, slicing and + do.  The alphabet of the *)
(* model's texts is ASCII.                                                   *)
(***************************************************************************)
EXTENDS Integers, Sequences, FiniteSets, TLC

\* An Optional value: None is the empty tuple, a present value v is <<v>>.
None == <<>>
Some(v) == <<v>>

(***************************************************************************)
(* Characters and the str methods the code uses.                           *)
(***************************************************************************)
Ch(s, i) == SubSeq(s, i, i)

\* The tuple <<f[1], ..., f[n]>> of a function f on 1..n, each element computed once
RECURSIVE Tuple(_, _)
Tuple(f, n) ==
    IF n = 0 THEN <<>> ELSE IF n = 1 THEN <<f[1]>>
    ELSE LET h == n \div 2
         IN  Tuple(f, h) \o Tuple([k \in 1..(n - h) |-> f[h + k]], n - h)

LowerAlpha == "abcdefghijklmnopqrstuvwxyz"
UpperAlpha == "ABCDEFGHIJKLMNOPQRSTUVWXYZ"
DigitChars == "0123456789"

CharsOf(s) == {Ch(s, i) : i \in 1..Len(s)}

Lowers == CharsOf(LowerAlpha)
Uppers == CharsOf(UpperAlpha)
Digits == CharsOf(DigitChars)
\* \w of the re module, on ASCII.
WordChars == Lowers \cup Uppers \cup Digits \cup {"_"}
\* The characters str.isspace() holds of: what \s, str.strip() and str.split() take
\* for whitespace.  After the five with an escape come U+000B, U+001C to U+001F,
\* U+0085, U+00A0 and U+1680, written as themselves.  (U+2000 to U+200A, U+2028,
\* U+2029, U+202F, U+205F and U+3000 are whitespace too but cannot occur in a
\* string of this language.)
SpaceChars ==
    {" ", "\t", "\n", "\r", "\f", "", "", "", "", "", "", " ", " "}

UpperOf == [c \in Lowers |-> Ch(UpperAlpha, CHOOSE i \in 1..26 : Ch(LowerAlpha, i) = c)]
LowerOf == [c \in Uppers |-> Ch(LowerAlpha, CHOOSE i \in 1..26 : Ch(UpperAlpha, i) = c)]

ToUpperCh(c) == IF c \in Lowers THEN UpperOf[c] ELSE c
ToLowerCh(c) == IF c \in Uppers THEN LowerOf[c] ELSE c

\* str.upper() (halving keeps the recursion shallow on long texts)
RECURSIVE Upper(_)
Upper(s) ==
    IF s = "" THEN ""
    ELSE IF Len(s) = 1 THEN ToUpperCh(s)
    ELSE LET h == Len(s) \div 2
         IN  Upper(SubSeq(s, 1, h)) \o Upper(SubSeq(s, h + 1, Len(s)))

\* str.lower()
RECURSIVE Lower(_)
Lower(s) ==
    IF s = "" THEN ""
    ELSE IF Len(s) = 1 THEN ToLowerCh(s)
    ELSE LET h == Len(s) \div 2
         IN  Lower(SubSeq(s, 1, h)) \o Lower(SubSeq(s, h + 1, Len(s)))

\* needle in hay
StartsAt(hay, needle, i) ==
    /\ i + Len(needle) - 1 <= Len(hay)
    /\ SubSeq(hay, i, i + Len(needle) - 1) = needle
Contains(hay, needle) == \E i \in 1..(Len(hay) + 1) : StartsAt(hay, needle, i)

\* The k-th smallest element of a finite set of numbers.
KthOf(S, k) == CHOOSE x \in S : Cardinality({y \in S : y < x}) = k - 1

\* str.split(sep) for a one-character sep: the pieces between the separators, empty
\* pieces kept.
Split(s, sep) ==
    LET cuts == {i \in 1..Len(s) : Ch(s, i) = sep}
        n == Cardinality(cuts)
        cut(k) == IF k = 0 THEN 0 ELSE IF k = n + 1 THEN Len(s) + 1 ELSE KthOf(cuts, k)
    IN  Tuple([k \in 1..(n + 1) |-> SubSeq(s, cut(k - 1) + 1, cut(k) - 1)], n + 1)

\* str.split(): the maximal runs of non-whitespace characters, in order.
Words(s) ==
    LET black(i) == i >= 1 /\ i <= Len(s) /\ Ch(s, i) \notin SpaceChars
        begins == {i \in 1..Len(s) : black(i) /\ ~black(i - 1)}
        ends == {i \in 1..Len(s) : black(i) /\ ~black(i + 1)}
    IN  Tuple([k \in 1..Cardinality(begins) |-> SubSeq(s, KthOf(begins, k), KthOf(ends, k))],
              Cardinality(begins))

\* s without the characters of spaces at its two ends
StripOf(s, spaces) ==
    LET black == {i \in 1..Len(s) : Ch(s, i) \notin spaces}
    IN  IF black = {} THEN ""
        ELSE SubSeq(s, CHOOSE i \in black : \A j \in black : i <= j,
                       CHOOSE i \in black : \A j \in (i + 1)..Len(s) : j \notin black)

\* str.strip()
Strip(s) == StripOf(s, SpaceChars)

\* sep.join(parts)
RECURSIVE Join(_, _)
Join(parts, sep) ==
    IF parts = <<>> THEN ""
    ELSE IF Len(parts) = 1 THEN parts[1]
    ELSE parts[1] \o sep \o Join(Tail(parts), sep)

\* seq[:n]
Take(seq, n) == SubSeq(seq, 1, IF Len(seq) < n THEN Len(seq) ELSE n)

(***************************************************************************)
(* Regular expressions.  A pattern is a tree of records:                   *)
(*   chr  one character out of the set cs                                  *)
(*   seq  the patterns rs one after the other                              *)
(*   alt  the alternatives rs, tried left to right                         *)
(*   rep  r repeated min..max times (max = -1: no limit), greedy           *)
(*   grp  capture group number n around r                                  *)
(* Every search of the code passes re.IGNORECASE, so a letter of a pattern *)
(* stands for both of its cases (Lit, Cls).  Match returns the first match  *)
(* that re's backtracking finds from position i; re.search takes the one   *)
(* at the leftmost position.                                               *)
(***************************************************************************)
Cls(cs) == [t |-> "chr", cs |-> UNION {{ToUpperCh(c), ToLowerCh(c)} : c \in cs}]
Lit(s) == [t |-> "seq", rs |-> Tuple([i \in 1..Len(s) |-> Cls({Ch(s, i)})], Len(s))]
Cat(rs) == [t |-> "seq", rs |-> rs]
Alt(rs) == [t |-> "alt", rs |-> rs]
Rep(r, min, max) == [t |-> "rep", r |-> r, min |-> min, max |-> max]
Star(r) == Rep(r, 0, -1)
Plus(r) == Rep(r, 1, -1)
Opt(r) == Rep(r, 0, 1)
Grp(n, r) == [t |-> "grp", n |-> n, r |-> r]

NoCaps == <<None, None>>

\* How many characters of s from position i on are in cs, at most limit of them
\* (limit = -1: no limit)
RunLength(cs, s, i, limit) ==
    LET avail == Len(s) - i + 1
        cap == IF limit < 0 \/ limit > avail THEN avail ELSE limit
        stops == {k \in 0..(cap - 1) : Ch(s, i + k) \notin cs}
    IN  IF stops = {} THEN cap ELSE CHOOSE k \in stops : \A j \in stops : k <= j

\* What is left to match after the pattern in hand is a sequence of patterns, rest.
\* Two marks stand in it beside the patterns: "end", where group n that began at
\* from ends, and "moved", the test that a turn of a repeat took a character.
\* OrElse is the first of two tries that is a match.
OrElse(first, second) == IF first # None THEN first ELSE second

RECURSIVE Match(_, _, _, _, _)
RECURSIVE MatchRest(_, _, _, _)
RECURSIVE MatchAlts(_, _, _, _, _)
RECURSIVE MatchRun(_, _, _, _, _, _)
\* the patterns of rest one after the other
MatchRest(rest, s, i, caps) ==
    IF rest = <<>> THEN Some([pos |-> i, caps |-> caps])
    ELSE Match(Head(rest), Tail(rest), s, i, caps)
\* the alternatives rs, left to right
MatchAlts(rs, rest, s, i, caps) ==
    IF rs = <<>> THEN None
    ELSE OrElse(Match(Head(rs), rest, s, i, caps), MatchAlts(Tail(rs), rest, s, i, caps))
\* a run of a character class of hi characters at most and lo at least: the longest
\* first, then one character less at a time
MatchRun(lo, hi, rest, s, i, caps) ==
    IF lo > hi THEN None
    ELSE IF lo = hi THEN MatchRest(rest, s, i + lo, caps)
    ELSE OrElse(MatchRun((lo + hi + 1) \div 2, hi, rest, s, i, caps),
                MatchRun(lo, (lo + hi + 1) \div 2 - 1, rest, s, i, caps))
\* r and then rest matched at position i of s, as re's backtracking finds it: None,
\* or the end of the match and its groups
Match(r, rest, s, i, caps) ==
    CASE r.t = "chr" ->
           IF i <= Len(s) /\ Ch(s, i) \in r.cs THEN MatchRest(rest, s, i + 1, caps) ELSE None
      [] r.t = "seq" -> MatchRest(r.rs \o rest, s, i, caps)
      [] r.t = "alt" -> MatchAlts(r.rs, rest, s, i, caps)
      [] r.t = "rep" /\ r.r.t = "chr" ->
           MatchRun(r.min, RunLength(r.r.cs, s, i, r.max), rest, s, i, caps)
      [] r.t = "rep" /\ r.r.t # "chr" ->
           OrElse(IF r.max = 0 THEN None
                  ELSE Match(r.r,
                             <<[t |-> "moved", from |-> i],
                               Rep(r.r, IF r.min > 0 THEN r.min - 1 ELSE 0,
                                   IF r.max > 0 THEN r.max - 1 ELSE r.max)>>
                             \o rest,
                             s, i, caps),
                  IF r.min = 0 THEN MatchRest(rest, s, i, caps) ELSE None)
      [] r.t = "grp" -> Match(r.r, <<[t |-> "end", n |-> r.n, from |-> i]>> \o rest, s, i, caps)
      [] r.t = "end" ->
           MatchRest(rest, s, i, [caps EXCEPT ![r.n] = Some(<<r.from, i - 1>>)])
      [] r.t = "moved" -> IF i > r.from THEN MatchRest(rest, s, i, caps) ELSE None

\* Whether r matches the empty string, and the characters a match of r can begin
\* with: re.compile's prefix analysis, which lets a search skip the positions no
\* match can start at.
RECURSIVE Nullable(_)
RECURSIVE NullableAll(_)
RECURSIVE NullableAny(_)
NullableAll(rs) == rs = <<>> \/ (Nullable(Head(rs)) /\ NullableAll(Tail(rs)))
NullableAny(rs) == rs # <<>> /\ (Nullable(Head(rs)) \/ NullableAny(Tail(rs)))
Nullable(r) ==
    CASE r.t = "chr" -> FALSE
      [] r.t = "seq" -> NullableAll(r.rs)
      [] r.t = "alt" -> NullableAny(r.rs)
      [] r.t = "rep" -> r.min = 0 \/ Nullable(r.r)
      [] r.t = "grp" -> Nullable(r.r)

RECURSIVE First(_)
RECURSIVE FirstSeq(_)
FirstSeq(rs) ==
    IF rs = <<>> THEN {}
    ELSE First(Head(rs)) \cup (IF Nullable(Head(rs)) THEN FirstSeq(Tail(rs)) ELSE {})
First(r) ==
    CASE r.t = "chr" -> r.cs
      [] r.t = "seq" -> FirstSeq(r.rs)
      [] r.t = "alt" -> UNION {First(r.rs[k]) : k \in 1..Len(r.rs)}
      [] r.t = "rep" -> IF r.max = 0 THEN {} ELSE First(r.r)
      [] r.t = "grp" -> First(r.r)

\* re.compile(pattern)
Compile(r) == [re |-> r, first |-> First(r), nullable |-> Nullable(r)]

\* re.search(p, s, re.IGNORECASE): None, or the leftmost match as [start, end, caps]
Search(p, s) ==
    LET starts == {i \in 1..(Len(s) + 1) :
                     /\ p.nullable \/ (i <= Len(s) /\ Ch(s, i) \in p.first)
                     /\ Match(p.re, <<>>, s, i, NoCaps) # None}
    IN  IF starts = {} THEN None
        ELSE LET i == CHOOSE j \in starts : \A k \in starts : j <= k
                 out == Match(p.re, <<>>, s, i, NoCaps)[1]
             IN  Some([start |-> i, end |-> out.pos - 1, caps |-> out.caps])

\* match.group(n) of a match m on s (every group of the code's patterns takes part
\* in every match)
MatchGroup(m, s, n) == SubSeq(s, m.caps[n][1][1], m.caps[n][1][2])

(***************************************************************************)
(* The patterns of the configuration, transcribed piece by piece.          *)
(***************************************************************************)
Sp == Cls(SpaceChars)                       \* \s
Dg == Cls(Digits)                           \* \d
Wd == Cls(WordChars)                        \* \w
Amt == Cls(Digits \cup {",", "."})          \* [\d,\.]

\* INVOICE_CONFIG: (?:Invoice No\.|Invoice|Bill)\s*[:#-]\s*(\w+)
PatInvoiceNumber ==
    Compile(Cat(<<Alt(<<Lit("Invoice No."), Lit("Invoice"), Lit("Bill")>>),
              Star(Sp), Cls({":", "#", "-"}), Star(Sp), Grp(1, Plus(Wd))>>))

\* INVOICE_CONFIG: (?:Invoice Date|DATED|Date)\s*[:#-]\s*(\d{2}[-/]\d{2}[-/]\d{2,4})
PatDate ==
    Compile(Cat(<<Alt(<<Lit("Invoice Date"), Lit("DATED"), Lit("Date")>>),
              Star(Sp), Cls({":", "#", "-"}), Star(Sp),
              Grp(1, Cat(<<Rep(Dg, 2, 2), Cls({"-", "/"}), Rep(Dg, 2, 2),
                           Cls({"-", "/"}), Rep(Dg, 2, 4)>>))>>))

\* INVOICE_CONFIG:
\* (?:PAYABLE AMOUNT|GRAND TOTAL|TOTAL|AMOUNT DUE|BALANCE)\s*(?:[A-Z]{3}|\$|€|£|Rs\.\s*)?\s*([\d,\.]+)
PatTotalAmount ==
    Compile(Cat(<<Alt(<<Lit("PAYABLE AMOUNT"), Lit("GRAND TOTAL"), Lit("TOTAL"),
                    Lit("AMOUNT DUE"), Lit("BALANCE")>>),
              Star(Sp),
              Opt(Alt(<<Rep(Cls(Uppers), 3, 3), Lit("$"), Lit("€"), Lit("£"),
                        Cat(<<Lit("Rs."), Star(Sp)>>)>>)),
              Star(Sp), Grp(1, Plus(Amt))>>))

\* INVOICE_CONFIG: (?:TAX|GST|VAT|SGST|CGST)\s*RATE\s*@\s*\d+%?\s*Rs\.\s*([\d,\.]+)
PatTaxAmount ==
    Compile(Cat(<<Alt(<<Lit("TAX"), Lit("GST"), Lit("VAT"), Lit("SGST"), Lit("CGST")>>),
              Star(Sp), Lit("RATE"), Star(Sp), Lit("@"), Star(Sp), Plus(Dg),
              Opt(Lit("%")), Star(Sp), Lit("Rs."), Star(Sp), Grp(1, Plus(Amt))>>))

\* INVOICE_CONFIG: (S\.K\.P\.S DIGITAL)
PatVendorName ==
    Compile(Grp(1, Lit("S.K.P.S DIGITAL")))

\* INVOICE_CONFIG: (?:GSTIN|VAT ID|Tax ID)\s*[:#]\s*(\w+)
PatGstNumber ==
    Compile(Cat(<<Alt(<<Lit("GSTIN"), Lit("VAT ID"), Lit("Tax ID")>>),
              Star(Sp), Cls({":", "#"}), Star(Sp), Grp(1, Plus(Wd))>>))

\* INVOICE_CONFIG: ITEM NAME \d\s+Rs\.\s*([\d,\.]+)\s+Rs\.\s*([\d,\.]+)
PatLineItem ==
    Compile(Cat(<<Lit("ITEM NAME "), Dg, Plus(Sp), Lit("Rs."), Star(Sp), Grp(1, Plus(Amt)),
              Plus(Sp), Lit("Rs."), Star(Sp), Grp(2, Plus(Amt))>>))

\* KNOWN_VENDOR_TEMPLATE: ACME-INV-(\d+)
PatAcmeInvoiceNumber ==
    Compile(Cat(<<Lit("ACME-INV-"), Grp(1, Plus(Dg))>>))

\* KNOWN_VENDOR_TEMPLATE: Billing Date:\s*(\d{4}-\d{2}-\d{2})
PatAcmeDate ==
    Compile(Cat(<<Lit("Billing Date:"), Star(Sp),
              Grp(1, Cat(<<Rep(Dg, 4, 4), Lit("-"), Rep(Dg, 2, 2), Lit("-"), Rep(Dg, 2, 2)>>))>>))

\* parse_line_items: ITEM NAME \d
PatItemHeader ==
    Compile(Cat(<<Lit("ITEM NAME "), Dg>>))

\* parse_line_items: (SUBTOTAL|TAX|TOTAL|BALANCE|GST|PAYABLE)
PatSummary ==
    Compile(Grp(1, Alt(<<Lit("SUBTOTAL"), Lit("TAX"), Lit("TOTAL"), Lit("BALANCE"),
                     Lit("GST"), Lit("PAYABLE")>>)))

(***************************************************************************)
(* Digits and decimal strings.                                             *)
(***************************************************************************)
RECURSIVE Pow10(_)
Pow10(n) == IF n = 0 THEN 1 ELSE 10 * Pow10(n - 1)

RECURSIVE StrToNat(_)
StrToNat(s) ==
    IF s = "" THEN 0
    ELSE 10 * StrToNat(SubSeq(s, 1, Len(s) - 1))
         + (CHOOSE i \in 1..10 : Ch(DigitChars, i) = Ch(s, Len(s))) - 1

RECURSIVE NatToStr(_)
NatToStr(n) ==
    IF n < 10 THEN Ch(DigitChars, n + 1)
    ELSE NatToStr(n \div 10) \o Ch(DigitChars, (n % 10) + 1)

LeftPad(s, n) ==
    IF Len(s) >= n THEN s ELSE SubSeq("00000000000000000000", 1, n - Len(s)) \o s

\* s without its leading zeros ("" when s is zeros only)
StripZeros(s) ==
    LET nz == {i \in 1..Len(s) : Ch(s, i) # "0"}
    IN  IF nz = {} THEN ""
        ELSE SubSeq(s, CHOOSE i \in nz : \A j \in 1..(i - 1) : j \notin nz, Len(s))

\* s without its trailing zeros ("" when s is zeros only)
StripTrailingZeros(s) ==
    LET nz == {i \in 1..Len(s) : Ch(s, i) # "0"}
    IN  IF nz = {} THEN ""
        ELSE SubSeq(s, 1, CHOOSE i \in nz : \A j \in (i + 1)..Len(s) : j \notin nz)

\* s without the characters of cs
RECURSIVE Without(_, _)
Without(s, cs) ==
    IF s = "" THEN ""
    ELSE IF Len(s) = 1 THEN (IF s \in cs THEN "" ELSE s)
    ELSE LET h == Len(s) \div 2
         IN  Without(SubSeq(s, 1, h), cs) \o Without(SubSeq(s, h + 1, Len(s)), cs)

(***************************************************************************)
(* Natural numbers of any size, as the tuple of their base-32768 digits,   *)
(* least significant first, without leading zeros (zero is the empty       *)
(* tuple): what Python's int and the exact arithmetic behind float() are.  *)
(***************************************************************************)
BigBase == 32768
BigBits == 15

RECURSIVE Pow2(_)
Pow2(n) == IF n = 0 THEN 1 ELSE 2 * Pow2(n - 1)

BigTrim(a) ==
    LET nz == {i \in 1..Len(a) : a[i] # 0}
    IN  IF nz = {} THEN <<>>
        ELSE SubSeq(a, 1, CHOOSE i \in nz : \A j \in (i + 1)..Len(a) : a[j] = 0)

RECURSIVE BigOfNat(_)
BigOfNat(n) == IF n = 0 THEN <<>> ELSE <<n % BigBase>> \o BigOfNat(n \div BigBase)

\* the digits lo..hi of the number whose i-th column holds cols[i], with the carry
\* coming in and the carry going out (the columns are taken by halves, the lower
\* half first)
RECURSIVE BigCarryRange(_, _, _, _)
BigCarryThen(low, high) == [digits |-> low.digits \o high.digits, carry |-> high.carry]
BigCarryJoin(cols, hi, low, mid) ==
    BigCarryThen(low, BigCarryRange(cols, mid + 1, hi, low.carry))
BigCarryRange(cols, lo, hi, carry) ==
    IF lo > hi THEN [digits |-> <<>>, carry |-> carry]
    ELSE IF lo = hi
    THEN [digits |-> <<(cols[lo] + carry) % BigBase>>, carry |-> (cols[lo] + carry) \div BigBase]
    ELSE BigCarryJoin(cols, hi, BigCarryRange(cols, lo, (lo + hi) \div 2, carry), (lo + hi) \div 2)

\* the number whose i-th column holds cols[i]
BigCarryOut(r) == r.digits \o BigOfNat(r.carry)
BigCarry(cols) == BigCarryOut(BigCarryRange(cols, 1, Len(cols), 0))

BigLimb(a, i) == IF i <= Len(a) THEN a[i] ELSE 0

BigAdd(a, b) ==
    BigCarry([i \in 1..(IF Len(a) > Len(b) THEN Len(a) ELSE Len(b)) |-> BigLimb(a, i) + BigLimb(b, i)])

BigMulSmall(a, k) ==
    IF k = 0 THEN <<>> ELSE BigCarry([i \in 1..Len(a) |-> a[i] * k])

\* a - b for a >= b
BigSub(a, b) ==
    BigTrim(BigCarryRange([i \in 1..Len(a) |-> a[i] + (BigBase - 1 - BigLimb(b, i))],
                          1, Len(a), 1).digits)

\* -1, 0 or 1 as a is below, equal to or above b
BigCmp(a, b) ==
    IF Len(a) # Len(b) THEN (IF Len(a) < Len(b) THEN -1 ELSE 1)
    ELSE LET diff == {i \in 1..Len(a) : a[i] # b[i]}
         IN  IF diff = {} THEN 0
             ELSE LET top == CHOOSE i \in diff : \A j \in (i + 1)..Len(a) : a[j] = b[j]
                  IN  IF a[top] < b[top] THEN -1 ELSE 1

\* a * 2^k
BigShl(a, k) ==
    IF a = <<>> THEN <<>>
    ELSE [i \in 1..(k \div BigBits) |-> 0] \o BigMulSmall(a, Pow2(k % BigBits))

\* the number of binary digits of a
BigBitLen(a) ==
    IF a = <<>> THEN 0
    ELSE BigBits * (Len(a) - 1) + Cardinality({k \in 0..(BigBits - 1) : Pow2(k) <= a[Len(a)]})

BigOdd(a) == a # <<>> /\ a[1] % 2 = 1

\* 10^n
\* a * 10^n
RECURSIVE BigMulPow10(_, _)
BigMulPow10(a, n) ==
    IF n <= 4 THEN BigMulSmall(a, Pow10(n))
    ELSE CHOOSE r \in {BigMulPow10(h, n - n \div 2) : h \in {BigMulPow10(a, n \div 2)}} : TRUE

BigPow10(n) == BigMulPow10(<<1>>, n)

\* the number a string of decimal digits writes
\* acc followed by the decimal digits s
RECURSIVE BigWithDigits(_, _)
BigWithDigits(acc, s) ==
    IF Len(s) <= 4 THEN BigAdd(BigMulSmall(acc, Pow10(Len(s))), BigOfNat(StrToNat(s)))
    ELSE CHOOSE r \in {BigWithDigits(h, SubSeq(s, Len(s) \div 2 + 1, Len(s))) :
                        h \in {BigWithDigits(acc, SubSeq(s, 1, Len(s) \div 2))}} : TRUE

BigOfDigits(s) == BigWithDigits(<<>>, s)

\* the largest d in lo..hi with d * t <= r (there is one: lo * t <= r)
RECURSIVE BigDigit(_, _, _, _)
BigDigit(r, t, lo, hi) ==
    IF lo >= hi THEN lo
    ELSE IF BigCmp(BigMulSmall(t, (lo + hi + 1) \div 2), r) <= 0
         THEN BigDigit(r, t, (lo + hi + 1) \div 2, hi)
         ELSE BigDigit(r, t, lo, (lo + hi + 1) \div 2 - 1)

\* floor(r / t) for r < 32768 * t, the top digit of t being 16384 or more: the two
\* top digits of r over the top digit of t bound it within a few units
BigDigitNear(r, t, top2, top1) ==
    BigDigit(r, t, top2 \div (top1 + 1),
             IF top2 \div top1 > BigBase - 1 THEN BigBase - 1 ELSE top2 \div top1)
BigDigitOf(r, t) ==
    BigDigitNear(r, t, BigLimb(r, Len(t)) + BigBase * BigLimb(r, Len(t) + 1), t[Len(t)])

\* the digit d taken and what remains of r
BigDivTake(r, t, d) == <<d, BigSub(r, BigMulSmall(t, d))>>

\* long division, one base-32768 digit of the quotient a step, from digit i down
RECURSIVE BigDivFrom(_, _, _, _)
BigDivFrom(r, b, i, q) ==
    IF i = 0 THEN [quo |-> BigTrim(q), rem |-> r, over |-> b]
    ELSE CHOOSE res \in
             {BigDivFrom(rest, b, i - 1, <<d>> \o q) :
                  <<d, rest>> \in {BigDivTake(r, t, BigDigitOf(r, t)) :
                                       t \in {[k \in 1..(i - 1) |-> 0] \o b}}} : TRUE

\* floor(a / b) as quo, and the fraction left as rem / over (both scaled by the same
\* power of two, which brings the top digit of the divisor to 16384 or more)
BigDivScaled(a, b) ==
    IF Len(a) < Len(b) THEN [quo |-> <<>>, rem |-> a, over |-> b]
    ELSE BigDivFrom(a, b, Len(a) - Len(b) + 1, <<>>)
BigDivBy(a, b) ==
    BigDivScaled(BigShl(a, BigBits - BigBitLen(<<b[Len(b)]>>)),
                 BigShl(b, BigBits - BigBitLen(<<b[Len(b)]>>)))

\* floor(a / k) and a mod k for a small k, from the top digit down
RECURSIVE BigDivSmallFrom(_, _, _, _)
BigDivSmallJoin(rest, digit) == [quo |-> Append(rest.quo, digit), rem |-> rest.rem]
BigDivSmallFrom(a, k, i, rem) ==
    IF i = 0 THEN [quo |-> <<>>, rem |-> rem]
    ELSE BigDivSmallJoin(BigDivSmallFrom(a, k, i - 1, (rem * BigBase + a[i]) % k),
                         (rem * BigBase + a[i]) \div k)

\* the decimal digits of a
RECURSIVE BigToDigits(_)
BigToDigitsStep(d) ==
    IF BigTrim(d.quo) = <<>> THEN NatToStr(d.rem)
    ELSE BigToDigits(BigTrim(d.quo)) \o LeftPad(NatToStr(d.rem), 4)
BigToDigits(a) ==
    IF a = <<>> THEN "0" ELSE BigToDigitsStep(BigDivSmallFrom(a, 10000, Len(a), 0))

(***************************************************************************)
(* Floats.  A float is named by the digits repr() writes for it:           *)
(* [digits, decpt] is the binary64 nearest to 0.digits * 10^decpt, digits  *)
(* being the shortest string that reads back as that binary64 (no leading  *)
(* and no trailing zero), so equal records are equal floats.  Arithmetic   *)
(* is done on the binary64 itself, m * 2^e with m below 2^53.  No amount   *)
(* the patterns of INVOICE_CONFIG capture has a sign.                      *)
(***************************************************************************)
Zero == [digits |-> "0", decpt |-> 1]
Inf == [digits |-> "inf", decpt |-> 0]
NaN == [digits |-> "nan", decpt |-> 0]

\* a float below zero (and -0.0) carries the sign before its digits; nan has none
IsNeg(f) == Ch(f.digits, 1) = "-"
Neg(f) == IF f = NaN THEN f ELSE [f EXCEPT !.digits = "-" \o @]
Abs(f) == IF IsNeg(f) THEN [f EXCEPT !.digits = SubSeq(@, 2, Len(@))] ELSE f

\* binary64: 53 binary digits, exponents -1074..971 of the last digit
\* a whole number of more than FloatMaxDigits digits is above the largest binary64
FloatMaxDigits == 309
MantBits == 53
MinExp == -1074
MaxExp == 971
BinZero == [inf |-> FALSE, m |-> <<>>, e |-> 0]
BinInf == [inf |-> TRUE, m |-> <<>>, e |-> 0]

\* floor(a * 2^s / b) and what remains, s of either sign; over is the divisor used
BigDivShifted(a, b, s) ==
    IF s >= 0 THEN BigDivBy(BigShl(a, s), b) ELSE BigDivBy(a, BigShl(b, -s))

\* the quotient rounded to nearest, ties to even
BigRoundUp(quo, twice) ==
    IF twice > 0 \/ (twice = 0 /\ BigOdd(quo)) THEN BigAdd(quo, <<1>>) ELSE quo
BigRoundEven(d) == BigRoundUp(d.quo, BigCmp(BigMulSmall(d.rem, 2), d.over))

\* floor(log2(a / b))
BigLog2Ratio(a, b) ==
    LET d == BigBitLen(a) - BigBitLen(b)
        atLeast == IF d >= 0 THEN BigCmp(a, BigShl(b, d)) >= 0
                   ELSE BigCmp(BigShl(a, -d), b) >= 0
    IN  IF atLeast THEN d ELSE d - 1

\* m * 2^e with the carry out of the 53rd digit and the overflow settled
BinNormal(m, e) ==
    IF m = <<>> THEN BinZero
    ELSE IF BigBitLen(m) > MantBits
    THEN (IF e + 1 > MaxExp THEN BinInf
          ELSE [inf |-> FALSE, m |-> BigShl(<<1>>, MantBits - 1), e |-> e + 1])
    ELSE IF e > MaxExp THEN BinInf
    ELSE [inf |-> FALSE, m |-> m, e |-> e]

BinRoundAt(a, b, e0, e) == BinNormal(BigRoundEven(BigDivShifted(a, b, e0 - e)), e)

BinRoundLog(a, b, e0, log) ==
    IF log > MaxExp + MantBits - 1 THEN BinInf
    ELSE IF log < MinExp - 1 THEN BinZero
    ELSE BinRoundAt(a, b, e0, IF log - (MantBits - 1) < MinExp THEN MinExp
                               ELSE log - (MantBits - 1))

\* the binary64 nearest to (a / b) * 2^e0, ties to even
BinRound(a, b, e0) ==
    IF a = <<>> THEN BinZero ELSE BinRoundLog(a, b, e0, BigLog2Ratio(a, b) + e0)

\* the binary64 nearest to 0.digits * 10^decpt (what float() reads)
BinOfDecimal(digits, decpt) ==
    IF decpt > FloatMaxDigits THEN BinInf
    ELSE IF decpt < -330 THEN BinZero
    ELSE IF decpt >= Len(digits)
    THEN BinRound(BigMulPow10(BigOfDigits(digits), decpt - Len(digits)), <<1>>, 0)
    ELSE BinRound(BigOfDigits(digits), BigPow10(Len(digits) - decpt), 0)

\* ---- repr: the shortest digits that read back as the binary64 ----
\* x * 2^(e - 2) / 10^j as a quotient and remainder
BinScaled(x, e, j) ==
    IF j >= 0
    THEN BigDivBy(BigShl(x, IF e >= 2 THEN e - 2 ELSE 0),
                  BigMulPow10(BigShl(<<1>>, IF e >= 2 THEN 0 ELSE 2 - e), j))
    ELSE BigDivBy(BigMulPow10(BigShl(x, IF e >= 2 THEN e - 2 ELSE 0), -j),
                  BigShl(<<1>>, IF e >= 2 THEN 0 ELSE 2 - e))

BigFloor(d) == d.quo
BigCeil(d) == IF d.rem = <<>> THEN d.quo ELSE BigAdd(d.quo, <<1>>)
BigPred(a) == IF a = <<>> THEN <<>> ELSE BigSub(a, <<1>>)

\* the multiples c of 10^j that read back as m * 2^e: those between the midpoints to
\* the neighbouring binary64s, the midpoints themselves when m is even
BinLowMid(m, e) ==
    IF m = BigShl(<<1>>, MantBits - 1) /\ e > MinExp THEN BigSub(BigMulSmall(m, 4), <<1>>)
    ELSE BigSub(BigMulSmall(m, 4), <<2>>)
BinLowest(m, e, j) ==
    IF BigOdd(m) THEN BigAdd(BigFloor(BinScaled(BinLowMid(m, e), e, j)), <<1>>)
    ELSE BigCeil(BinScaled(BinLowMid(m, e), e, j))
BinHighest(m, e, j) ==
    IF BigOdd(m) THEN BigPred(BigCeil(BinScaled(BigAdd(BigMulSmall(m, 4), <<2>>), e, j)))
    ELSE BigFloor(BinScaled(BigAdd(BigMulSmall(m, 4), <<2>>), e, j))
BinReadsBack(m, e, j) == BigCmp(BinLowest(m, e, j), BinHighest(m, e, j)) <= 0

\* the largest j in lo..(hi - 1) with such a multiple (there is one at lo, none at hi)
RECURSIVE BinCoarsest(_, _, _, _)
BinCoarsest(m, e, lo, hi) ==
    IF hi - lo <= 1 THEN lo
    ELSE IF BinReadsBack(m, e, (lo + hi) \div 2) THEN BinCoarsest(m, e, (lo + hi) \div 2, hi)
    ELSE BinCoarsest(m, e, lo, (lo + hi) \div 2)

BigClamp(c, lo, hi) == IF BigCmp(c, lo) < 0 THEN lo ELSE IF BigCmp(c, hi) > 0 THEN hi ELSE c

FloatOfDigits(digits, j) == [digits |-> digits, decpt |-> Len(digits) + j]
FloatAtScale(m, e, j) ==
    FloatOfDigits(BigToDigits(BigClamp(BigRoundEven(BinScaled(BigMulSmall(m, 4), e, j)),
                                       BinLowest(m, e, j), BinHighest(m, e, j))), j)

\* floor(log10) of a number of bits binary digits, or one less
Log10Low(bits) == ((bits - 1) * 30103) \div 100000

FloatOfBin(b) ==
    IF b.inf THEN Inf
    ELSE IF b.m = <<>> THEN Zero
    ELSE FloatAtScale(b.m, b.e,
                      BinCoarsest(b.m, b.e, Log10Low(BigBitLen(b.m) + b.e) - 17,
                                  Log10Low(BigBitLen(b.m) + b.e) + 3))

\* the float a decimal reads as; up to 15 digits are kept as written by binary64
MaxExactDigits == 15
MaxExactExp == 290
FloatOfDecimal(digits, decpt) ==
    IF digits = "0" THEN Zero
    ELSE IF Len(digits) <= MaxExactDigits /\ decpt >= -MaxExactExp /\ decpt <= MaxExactExp
    THEN [digits |-> digits, decpt |-> decpt]
    ELSE FloatOfBin(BinOfDecimal(digits, decpt))

BinOfFloat(f) == IF f = Inf THEN BinInf ELSE IF f = Zero THEN BinZero
                 ELSE BinOfDecimal(f.digits, f.decpt)

\* a / b on binary64s (b not zero); None stands for nan
BinDiv(a, b) ==
    IF a.inf THEN (IF b.inf THEN None ELSE Some(BinInf))
    ELSE IF b.inf THEN Some(BinZero)
    ELSE Some(BinRound(a.m, b.m, a.e - b.e))

\* the float of a whole number below 2^53, from its digits
FloatOfNatural(n) ==
    IF n = "0" THEN Zero ELSE [digits |-> StripTrailingZeros(n), decpt |-> Len(n)]

\* round(x) of a finite binary64, as the float of the integer
BinRoundInt(b) ==
    IF b.m = <<>> \/ b.e >= 0 THEN FloatOfBin(b)
    ELSE FloatOfNatural(BigToDigits(BigRoundEven(BigDivShifted(b.m, <<1>>, b.e))))

\* float(s): a sign if any, then digits with at most one point and an exponent if
\* any, or inf / infinity / nan, in either case and within whitespace; an underscore
\* may stand between two digits.  None stands for ValueError.
\* (The whitespace float() takes off is str.isspace() less U+001C to U+001F.)
IsDecimalText(t) ==
    /\ \A i \in 1..Len(t) : Ch(t, i) \in Digits \cup {"."}
    /\ Cardinality({i \in 1..Len(t) : Ch(t, i) = "."}) <= 1
    /\ \E i \in 1..Len(t) : Ch(t, i) \in Digits
IsExponentText(t) ==
    LET ds == IF t # "" /\ Ch(t, 1) \in {"+", "-"} THEN SubSeq(t, 2, Len(t)) ELSE t
    IN  ds # "" /\ \A i \in 1..Len(ds) : Ch(ds, i) \in Digits

\* the exponent an exponent text writes.  float() reads up to MaxExponentDigits
\* digits after the leading zeros as they are written, and takes a longer exponent
\* for MaxAbsExp (string to double conversion of CPython, Python/dtoa.c)
MaxExponentDigits == 9
MaxAbsExp == 1100000000
ExponentOf(t) ==
    LET ds == StripZeros(IF Ch(t, 1) \in {"+", "-"} THEN SubSeq(t, 2, Len(t)) ELSE t)
        n == IF Len(ds) > MaxExponentDigits THEN MaxAbsExp ELSE StrToNat(ds)
    IN  IF Ch(t, 1) = "-" THEN 0 - n ELSE n

\* the float written as the digits of mant, with its point if any, times 10^exp
FloatOfMantissa(mant, exp) ==
    LET dots == {i \in 1..Len(mant) : Ch(mant, i) = "."}
        whole == IF dots = {} THEN Len(mant) ELSE (CHOOSE i \in dots : TRUE) - 1
        all == Without(mant, {"."})
        sig == StripZeros(all)
    IN  IF sig = "" THEN Zero
        ELSE FloatOfDecimal(StripTrailingZeros(sig), whole - (Len(all) - Len(sig)) + exp)

\* t without sign, of which es are the places of an "e"
PyFloatOf(t, es) ==
    IF t \in {"inf", "infinity"} THEN Some(Inf)
    ELSE IF t = "nan" THEN Some(NaN)
    ELSE IF es = {}
    THEN (IF IsDecimalText(t) THEN Some(FloatOfMantissa(t, 0)) ELSE None)
    ELSE IF Cardinality(es) > 1 THEN None
    ELSE LET e == CHOOSE i \in es : TRUE
         IN  IF IsDecimalText(SubSeq(t, 1, e - 1)) /\ IsExponentText(SubSeq(t, e + 1, Len(t)))
             THEN Some(FloatOfMantissa(SubSeq(t, 1, e - 1), ExponentOf(SubSeq(t, e + 1, Len(t)))))
             ELSE None

\* t with its sign if any, and without underscores
PyFloatSigned(t) ==
    CHOOSE r \in {IF t # "" /\ Ch(t, 1) = "-" /\ f # None THEN Some(Neg(f[1])) ELSE f :
                    f \in {PyFloatOf(u, {i \in 1..Len(u) : Ch(u, i) = "e"}) :
                             u \in {IF t # "" /\ Ch(t, 1) \in {"+", "-"}
                                    THEN SubSeq(t, 2, Len(t)) ELSE t}}} : TRUE

PyFloat(s) ==
    CHOOSE r \in {IF \A i \in 1..Len(t) :
                        Ch(t, i) = "_" => /\ i > 1 /\ Ch(t, i - 1) \in Digits
                                          /\ i < Len(t) /\ Ch(t, i + 1) \in Digits
                  THEN PyFloatSigned(Without(t, {"_"}))
                  ELSE None :
                    t \in {Lower(StripOf(s, SpaceChars \ {"", "", "", ""}))}} : TRUE

\* parse_float (lines 186-195)
parse_float(value) ==
    IF value # ""
    THEN PyFloat(Strip(Without(Without(value, {"$", ",", "€", "£", "(", ")"}), {","})))
    ELSE None

\* the truth value of an Optional[float]: None, 0.0 and -0.0 are false
Truthy(f) == f # None /\ Abs(f[1]) # Zero

\* f > 0
Positive(f) == ~IsNeg(f) /\ f # Zero /\ f # NaN

\* float(n) of an int of the model
IntToFloat(n) == FloatOfNatural(NatToStr(n))

\* round(a / b) of line 231 as a float, for b above zero; None when round
\* raises (OverflowError on an infinite quotient, ValueError on nan).  The division
\* is binary64's and the rounding is of the binary64 quotient, a tie to even.
\* A float of up to nine digits is the whole number Num(f) times 10^Exp(f), exactly
\* so (not the binary64 nearest to it) when it is whole or its denominator is a
\* power of two.  Where a / b is a ratio p / q of whole numbers below 10^9 that is
\* not halfway between two integers, the error of the binary64 quotient (below
\* 2^-51 of it) is too small to cross a halfway point (1 / 2q or more away), and a
\* tie of exact operands is computed exactly: there the rounding is done on p / q.
RoundDiv(a, b) ==
    LET Exp(f) == f.decpt - Len(f.digits)
        Num(f) == StrToNat(f.digits)
        IsExact(f) ==
            \/ Exp(f) >= 0 /\ f.decpt <= MaxExactDigits
            \/ /\ Exp(f) < 0 /\ Exp(f) >= -9
               /\ Num(f) % (Pow10(0 - Exp(f)) \div Pow2(0 - Exp(f))) = 0
        Fits(x) ==
            /\ Len(x.digits) <= 9 /\ Len(b.digits) <= 9
            /\ x.decpt >= -MaxExactExp /\ x.decpt <= MaxExactExp
            /\ b.decpt >= -MaxExactExp /\ b.decpt <= MaxExactExp
            /\ x.decpt - (IF Exp(x) < Exp(b) THEN Exp(x) ELSE Exp(b)) <= 9
            /\ b.decpt - (IF Exp(x) < Exp(b) THEN Exp(x) ELSE Exp(b)) <= 9
        P(x) == Num(x) * Pow10(IF Exp(x) > Exp(b) THEN Exp(x) - Exp(b) ELSE 0)
        Q(x) == Num(b) * Pow10(IF Exp(b) > Exp(x) THEN Exp(b) - Exp(x) ELSE 0)
        \* round(p / q) for whole numbers: to the nearest, a tie to even
        Ratio(p, q) ==
            IF 2 * (p % q) < q THEN p \div q
            ELSE IF 2 * (p % q) > q THEN p \div q + 1
            ELSE IF (p \div q) % 2 = 0 THEN p \div q ELSE p \div q + 1
        OfBin(quotient) ==
            IF quotient = None \/ quotient[1].inf THEN None
            ELSE Some(BinRoundInt(quotient[1]))
        OfAbs(x) ==
            IF x = Inf \/ x = NaN \/ b = NaN THEN None
            ELSE IF b = Inf THEN Some(Zero)
            ELSE IF /\ Fits(x)
                    /\ 2 * (P(x) % Q(x)) # Q(x) \/ (IsExact(x) /\ IsExact(b))
            THEN Some(IntToFloat(Ratio(P(x), Q(x))))
            ELSE OfBin(BinDiv(BinOfFloat(x), BinOfFloat(b)))
        \* int has no -0: round(-0.2) is 0
        Negated(r) == IF r = None \/ r = Some(Zero) THEN r ELSE Some(Neg(r[1]))
    IN  IF IsNeg(a) THEN Negated(OfAbs(Abs(a))) ELSE OfAbs(a)

\* str(f) of a float, as csv.writer writes it: repr's shortest digits, in place for
\* 1e-4 <= f < 1e16 and with an exponent otherwise
FloatStr(f) ==
    LET Unsigned(g) ==
            IF g = Inf THEN "inf"
            ELSE IF g = NaN THEN "nan"
            ELSE IF g.decpt > 16 \/ g.decpt <= -4
            THEN Ch(g.digits, 1)
                 \o (IF Len(g.digits) > 1 THEN "." \o SubSeq(g.digits, 2, Len(g.digits))
                     ELSE "")
                 \o (IF g.decpt > 0 THEN "e+" \o LeftPad(NatToStr(g.decpt - 1), 2)
                     ELSE "e-" \o LeftPad(NatToStr(1 - g.decpt), 2))
            ELSE IF g.decpt <= 0 THEN "0." \o LeftPad("", 0 - g.decpt) \o g.digits
            ELSE IF g.decpt >= Len(g.digits)
            THEN g.digits \o LeftPad("", g.decpt - Len(g.digits)) \o ".0"
            ELSE SubSeq(g.digits, 1, g.decpt) \o "."
                 \o SubSeq(g.digits, g.decpt + 1, Len(g.digits))
    IN  IF IsNeg(f) THEN "-" \o Unsigned(Abs(f)) ELSE Unsigned(f)

(***************************************************************************)
(* The line-item reconstructor and the field extractor.                    *)
(***************************************************************************)
\* Lines 227-231: the quantity of a line item, None when line 231 raises (round of
\* a quotient that is not a finite number)
Quantity(unit_price, line_total) ==
    IF Truthy(unit_price) /\ Truthy(line_total) /\ Positive(unit_price[1])
    THEN RoundDiv(line_total[1], unit_price[1])
    ELSE Some(IntToFloat(1))

\* lines 233-239: the item appended, if the description is not empty and line 231
\* did not raise
ItemOfPrices(description, unit_price, line_total) ==
    LET With(quantity) ==
            IF quantity = None THEN <<>>                     \* except Exception: print
            ELSE IF description # ""
            THEN <<[quantity |-> quantity,
                    description |-> description,
                    unit_price |-> unit_price,
                    line_total |-> line_total]>>
            ELSE <<>>
    IN  With(Quantity(unit_price, line_total))

\* Lines 220-243 for a line the pattern matched as m: the items the line adds
ItemOfMatch(line, m) ==
    IF Len(Words(line)) < 3 THEN <<>>                        \* IndexError: continue
    ELSE ItemOfPrices("ITEM NAME " \o Words(line)[3],
                      parse_float(Strip(MatchGroup(m, line, 1))),
                      parse_float(Strip(MatchGroup(m, line, 2))))

\* (a variant of ItemsOfLine that does not skip the summary lines)
ItemsOfLineWithSummaries(line, pattern) ==
    LET m == Search(pattern, line)
    IN  IF m = None THEN <<>> ELSE ItemOfMatch(line, m[1])

\* The body of the loop of parse_line_items for one line at or after the header
\* (lines 215-243): the items the line adds, none or one.
ItemsOfLine(line, pattern) ==
    IF Search(PatSummary, line) # None THEN <<>>
    ELSE LET m == Search(pattern, line)
         IN  IF m = None THEN <<>> ELSE ItemOfMatch(line, m[1])

RECURSIVE ItemsFrom(_, _, _)
ItemsFrom(lines, i, pattern) ==
    IF i > Len(lines) THEN <<>>
    ELSE ItemsOfLine(lines[i], pattern) \o ItemsFrom(lines, i + 1, pattern)

\* parse_line_items (lines 197-245)
parse_line_items(raw_text, pattern) ==
    LET lines == Split(raw_text, "\n")
        headers == {i \in 1..Len(lines) : Search(PatItemHeader, lines[i]) # None}
    IN  IF headers = {} THEN <<>>
        ELSE ItemsFrom(lines, CHOOSE i \in headers : \A j \in headers : i <= j, pattern)

\* INVOICE_CONFIG (lines 41-58)
INVOICE_CONFIG ==
    [invoice_number |-> PatInvoiceNumber,
     date |-> PatDate,
     total_amount |-> PatTotalAmount,
     tax_amount |-> PatTaxAmount,
     vendor_name |-> PatVendorName,
     gst_number |-> PatGstNumber,
     line_item_pattern |-> PatLineItem]

\* KNOWN_VENDOR_TEMPLATE (lines 61-67)
KNOWN_VENDOR_TEMPLATE ==
    [vendor_name |-> "Acme Corp",
     regex_overrides |-> [invoice_number |-> PatAcmeInvoiceNumber, date |-> PatAcmeDate]]

\* The number of leading lines searched for the vendor's name (line 260)
VendorLines == 5

\* (a variant of IsKnownVendor that searches the whole text)
IsKnownVendorAnywhere(raw_text) ==
    Contains(Upper(raw_text), Upper(KNOWN_VENDOR_TEMPLATE.vendor_name))

\* The known-vendor check (lines 257-264)
IsKnownVendor(raw_text) ==
    LET first_lines == Upper(Join(Take(Split(raw_text, "\n"), VendorLines), "\n"))
    IN  Contains(first_lines, Upper(KNOWN_VENDOR_TEMPLATE.vendor_name))

\* dict.update
DictUpdate(d, e) ==
    [k \in DOMAIN d \cup DOMAIN e |-> IF k \in DOMAIN e THEN e[k] ELSE d[k]]

\* The effective patterns (lines 266-268)
PatternsFor(raw_text) ==
    IF IsKnownVendor(raw_text)
    THEN DictUpdate(INVOICE_CONFIG, KNOWN_VENDOR_TEMPLATE.regex_overrides)
    ELSE INVOICE_CONFIG

\* One turn of the field loop (lines 271-288): the value parsed_data gets for field,
\* None when the pattern does not match or the amount does not parse.
ExtractField(field, pattern, raw_text) ==
    LET m == Search(pattern, raw_text)
    IN  IF m = None THEN None
        ELSE LET value == Strip(MatchGroup(m[1], raw_text, 1))
             IN  IF field \in {"total_amount", "tax_amount"}
                 THEN parse_float(value)
                 ELSE Some(value)

\* The field loop of parse_invoice_data (lines 270-288) under the effective patterns:
\* parsed_data, a value for each field but line_item_pattern
FieldNames ==
    {"invoice_number", "date", "total_amount", "tax_amount", "vendor_name", "gst_number"}

ExtractFields(patterns, raw_text) ==
    [field \in FieldNames |-> ExtractField(field, patterns[field], raw_text)]

\* The placeholder text of extract_text_tesseract (lines 163-173)
MockText ==
    "Acme Corp\n"
    \o "123 Main St, Anytown, USA\n"
    \o "Invoice No: ACME-INV-45678\n"
    \o "Date: 01/01/2024\n"
    \o "GSTIN: 22AAAAA0000A1Z5\n"
    \o "ITEM QTY RATE TOTAL\n"
    \o "1. Consulting Service 1 500.00 500.00\n"
    \o "2. Software License 2 150.00 300.00\n"
    \o "Subtotal: 800.00\n"
    \o "TAX (10%): 80.00\n"
    \o "GRAND TOTAL: 880.00"

\* n nines
RECURSIVE Nines(_)
Nines(n) ==
    IF n = 0 THEN "" ELSE IF n = 1 THEN "9"
    ELSE Nines(n \div 2) \o Nines(n - n \div 2)

\* The texts the model's engine answers with; one has a total of one digit more
\* than the largest float, which float() reads as inf.
EngineTexts ==
    {"",
     " \n\t ",
     "TOTAL Rs. " \o Nines(FloatMaxDigits + 1),
     "S.K.P.S DIGITAL\nInvoice: 77 Date: 01/01/2024\nITEM NAME 1 Rs. 150.00 Rs. 300.00\nTOTAL Rs. 300.00",
     "Acme Corp\nInvoice No: ACME-INV-45678\nITEM NAME 2 Rs. 300.00 Rs. 100.00"}

\* Step 4 of parse_invoice_data (lines 293-301): the ParsedInvoice built
InvoiceOf(invoice_id, parsed_data, line_items, raw_text) ==
    [invoice_id |-> invoice_id,
     vendor_name |-> parsed_data.vendor_name,
     invoice_number |-> parsed_data.invoice_number,
     date |-> parsed_data.date,
     total_amount |-> parsed_data.total_amount,
     tax_amount |-> parsed_data.tax_amount,
     gst_number |-> parsed_data.gst_number,
     line_items |-> line_items,
     raw_text |-> raw_text]

\* parse_invoice_data (lines 247-301); invoice_id is the uuid4 drawn at line 253
parse_invoice_data(raw_text, invoice_id) ==
    InvoiceOf(invoice_id,
              ExtractFields(PatternsFor(raw_text), raw_text),
              parse_line_items(raw_text, INVOICE_CONFIG.line_item_pattern),
              raw_text)

(***************************************************************************)
(* The report builder.  csv.writer with the default dialect: a None field  *)
(* is written empty, a float by str, a field holding a comma, a quote or a *)
(* line break is quoted with its quotes doubled, fields are joined by      *)
(* commas and a row ends in "\r\n".                                        *)
(***************************************************************************)
RECURSIVE DoubleQuotes(_)
DoubleQuotes(s) ==
    IF s = "" THEN ""
    ELSE IF Len(s) = 1 THEN (IF s = "\"" THEN "\"\"" ELSE s)
    ELSE LET h == Len(s) \div 2
         IN  DoubleQuotes(SubSeq(s, 1, h)) \o DoubleQuotes(SubSeq(s, h + 1, Len(s)))

CsvField(text) ==
    IF \E i \in 1..Len(text) : Ch(text, i) \in {",", "\"", "\r", "\n"}
    THEN "\"" \o DoubleQuotes(text) \o "\""
    ELSE text

\* (a variant of CellStr that writes None as str does)
CellStrNone(v) == IF v = None THEN "None" ELSE v[1]

\* the text of a cell: a string as it is, None empty, a float by str
CellStr(v) == IF v = None THEN "" ELSE v[1]
CellFloat(v) == IF v = None THEN "" ELSE FloatStr(v[1])

\* writer.writerow(cells), cells already texts
CsvRow(cells) ==
    Join(Tuple([k \in 1..Len(cells) |-> CsvField(cells[k])], Len(cells)), ",") \o "\r\n"

RECURSIVE CsvRows(_)
CsvRows(rows) == IF rows = <<>> THEN "" ELSE CsvRow(Head(rows)) \o CsvRows(Tail(rows))

\* generate_csv_string (lines 305-342)
generate_csv_string(invoice) ==
    LET header_fields ==
            << <<"Invoice ID", invoice.invoice_id>>,
               <<"Vendor Name", CellStr(invoice.vendor_name)>>,
               <<"Invoice Number", CellStr(invoice.invoice_number)>>,
               <<"Date", CellStr(invoice.date)>>,
               <<"GST Number", CellStr(invoice.gst_number)>>,
               <<"Tax Amount", CellFloat(invoice.tax_amount)>>,
               <<"Total Amount", CellFloat(invoice.total_amount)>> >>
        item_rows ==
            Tuple([k \in 1..Len(invoice.line_items) |->
                     <<invoice.line_items[k].description,
                       CellFloat(invoice.line_items[k].quantity),
                       CellFloat(invoice.line_items[k].unit_price),
                       CellFloat(invoice.line_items[k].line_total)>>],
                  Len(invoice.line_items))
    IN  CsvRows(<< <<"--- INVOICE HEADER DETAILS ---">> >>)
        \o CsvRows(header_fields)
        \o CsvRows(<< <<>> >>)
        \o CsvRows(<< <<"--- LINE ITEMS ---">>,
                      <<"Description", "Quantity", "Unit Price", "Line Total">> >>)
        \o CsvRows(item_rows)

(***************************************************************************)
(* The raw texts the extractor is run on: up to MaxPad address lines, then *)
(* up to MaxBody lines drawn from BodyLines, joined by line breaks.        *)
(***************************************************************************)
MaxPad == 5
MaxBody == 2

PadLine == "PO Box 7"

BodyLines ==
    {"Acme Corp",
     "acme corp ltd Billing Date: 2024-01-31",
     "Invoice No: ACME-INV-45678",
     "acme corp ref ACME-INV-001",
     "Invoice No: ACME-INV-456789",
     "Invoice: 77 Date: 01/01/2024",
     "GRAND TOTAL: Rs. 880.00",
     "S.K.P.S DIGITAL GSTIN: 22AAAAA0000A1Z5",
     "GST RATE @ 18% Rs. 158.40 TOTAL Rs. 1,880.50",
     "ITEM NAME 1 Rs. 150.00 Rs. 300.00",
     "ITEM NAME 2 Rs. 300.00 Rs. 100.00",
     "ITEM NAME 3 Rs. 150.00 Rs. 0",
     "ITEM NAME 4 Rs. 0.00 Rs. 50",
     "a b \"c,d\" ITEM NAME 5 Rs. 200 Rs. 1.2.3",
     "ITEM NAME 6 Rs. 200 Rs. 300",
     "ITEM NAME 7 Rs. 150 Rs. " \o Nines(FloatMaxDigits + 1),
     "ITEM NAME 8 Rs. 10 Rs. 20 incl. tax",
     "ITEM NAME 9 Rs. 0.1 Rs. 0.15"}

RECURSIVE Pad(_)
Pad(n) == IF n = 0 THEN <<>> ELSE <<PadLine>> \o Pad(n - 1)

RECURSIVE Bodies(_)
Bodies(n) ==
    IF n = 0 THEN {<<>>}
    ELSE Bodies(n - 1)
         \cup {<<l>> \o b : l \in BodyLines, b \in {c \in Bodies(n - 1) : Len(c) = n - 1}}

Texts == {Join(Pad(j) \o b, "\n") : j \in 0..MaxPad, b \in Bodies(MaxBody) \ {<<>>}}

\* The uuid4 strings of the model, one for each k < 10.
Uuid(k) == "00000000-0000-4000-8000-00000000000" \o NatToStr(k)

(***************************************************************************)
(* The state.  HAS_OCR_DEPS and MOCK_DATABASE are the globals of the       *)
(* backend; response is the answer to the last request, with the request   *)
(* and the pipeline stages that ran for it; returned keeps the record each *)
(* successful upload answered with.  raw_text, parsed and report are the   *)
(* input and the results of the extractor run on its own (ParseSpec).      *)
(* requests holds the handler calls that run side by side on the event     *)
(* loop (ConcSpec): for each its position, its inputs and its answer.      *)
(* suspended lists the uploads of Spec that wait in file.read().           *)
(***************************************************************************)
VARIABLES HAS_OCR_DEPS, MOCK_DATABASE, returned, response, raw_text, parsed, report,
          requests, suspended

vars == <<HAS_OCR_DEPS, MOCK_DATABASE, returned, response, raw_text, parsed, report,
          requests, suspended>>
apiVars == <<HAS_OCR_DEPS, MOCK_DATABASE, returned, response, requests, suspended>>
parseVars == <<raw_text, parsed, report>>

EmptyDict == [k \in {} |-> None]

\* d[key] = value
DictPut(d, key, value) ==
    [k \in DOMAIN d \cup {key} |-> IF k = key THEN value ELSE d[k]]

\* d.get(key): None when the key is absent
DictGet(d, key) == IF key \in DOMAIN d THEN Some(d[key]) ELSE None

(***************************************************************************)
(* Uploaded files, by what the decoders make of their bytes: pil is the    *)
(* format PIL's Image.open identifies ("" when it raises                   *)
(* UnidentifiedImageError), loads tells whether PIL can read the pixels    *)
(* (convert raises OSError when it cannot, as for a truncated file), cv is *)
(* cv2.imdecode's answer: "color" (decoded), "gray" (decoded only as       *)
(* grayscale), "none" (None both times), "error" (cv2.error, raised for an *)
(* empty buffer).                                                          *)
(***************************************************************************)
Files ==
    {[name |-> "scan.png", pil |-> "PNG", loads |-> TRUE, cv |-> "color"],
     [name |-> "scan.tiff", pil |-> "TIFF", loads |-> TRUE, cv |-> "gray"],
     [name |-> "anim.gif", pil |-> "GIF", loads |-> TRUE, cv |-> "none"],
     [name |-> "cut.png", pil |-> "PNG", loads |-> FALSE, cv |-> "none"],
     [name |-> "noise.bin", pil |-> "", loads |-> FALSE, cv |-> "none"],
     [name |-> "empty.bin", pil |-> "", loads |-> FALSE, cv |-> "error"]}

\* An exception, and the absence of one.
Raise(type, msg) == [raised |-> TRUE, type |-> type, msg |-> msg]
NoExc == [raised |-> FALSE, type |-> "", msg |-> ""]

\* The exception classes that occur, each with its base classes.
Bases ==
    [RuntimeError |-> {"RuntimeError", "Exception"},
     ValueError |-> {"ValueError", "Exception"},
     UnidentifiedImageError |-> {"UnidentifiedImageError", "OSError", "Exception"},
     OSError |-> {"OSError", "Exception"},
     cv2error |-> {"cv2error", "Exception"},
     HTTPException |-> {"HTTPException", "Exception"}]
IsInstance(e, class) == class \in Bases[e.type]

\* Image.open(BytesIO(image_bytes))
ImageOpen(file) ==
    IF file.pil = ""
    THEN Raise("UnidentifiedImageError", "cannot identify image file")
    ELSE NoExc

\* Image.open(BytesIO(image_bytes)).convert('RGB'): open identifies the format,
\* convert reads the pixels
ImageConvert(file) ==
    IF ImageOpen(file).raised THEN ImageOpen(file)
    ELSE IF ~file.loads
    THEN Raise("OSError", "image file is truncated")
    ELSE NoExc

\* preprocess_image (lines 89-151): NoExc when it returns an image, else what it
\* raises.  The thresholding and the deskewing after the decoding do not fail (a
\* cv2.error of the deskewing is caught at line 146).
preprocess_image(file, has_ocr_deps) ==
    LET \* line 95: the test holds (without dependencies Image.open is not called in it)
        entered == \/ ~has_ocr_deps
                   \/ ~ImageOpen(file).raised /\ Contains(Lower(file.pil), "pdf")
        \* lines 94-100: the image is returned from inside the try, an exception
        \* of the try is swallowed
        early == entered /\ ~ImageConvert(file).raised
    IN  IF early THEN NoExc
        ELSE IF ~has_ocr_deps THEN ImageConvert(file)              \* lines 103-105
        ELSE IF file.cv = "error"
        THEN Raise("cv2error", "(-215:Assertion failed) !buf.empty() in function 'imdecode_'")
        ELSE IF file.cv = "none"
        THEN Raise("ValueError", "Could not decode image bytes into OpenCV format.")
        ELSE NoExc

(***************************************************************************)
(* The OCR engine is a black box: it returns a text or raises.             *)
(***************************************************************************)
EngineError == "tesseract is not installed or it's not in your PATH."

EngineOutcomes ==
    {[raises |-> FALSE, text |-> t] : t \in EngineTexts}
    \cup {[raises |-> TRUE, text |-> EngineError]}

\* extract_text_tesseract (lines 156-181): [exc, text]
extract_text_tesseract(engine, has_ocr_deps) ==
    IF ~has_ocr_deps THEN [exc |-> NoExc, text |-> MockText]
    ELSE IF engine.raises
    THEN [exc |-> Raise("RuntimeError",
                        "tesseract is not installed or it's not in your PATH. "
                        \o "See README file for more information. Error: " \o engine.text),
          text |-> ""]
    ELSE [exc |-> NoExc, text |-> engine.text]

(***************************************************************************)
(* The REST handlers.                                                      *)
(***************************************************************************)
AcceptedTypes == {"image/jpeg", "image/png", "application/pdf", "image/tiff"}
\* the content types the model's requests declare
ContentTypes == {"image/png", "application/pdf", "text/plain"}

NoTextDetail == "OCR failed to extract any legible text from the document."
InvalidTypeDetail == "Invalid file type. Please upload JPG, PNG, TIFF, or PDF."
UnexpectedPrefix == "An unexpected error occurred during processing. Error: "
ProcessingPrefix == "File processing error: "

\* str(e): an HTTPException prints as "<status_code>: <detail>"
StrExc(e) == e.msg

\* An answer of a handler.  trace lists the pipeline stages that ran, in order.
Answer(op, status, detail, trace) ==
    [op |-> op, status |-> status, detail |-> detail, trace |-> trace,
     invoice |-> None, csv |-> "", content_type |-> "", file |-> "", engine |-> None,
     invoice_id |-> ""]

NoAnswer == Answer("none", 0, "", <<>>)

\* LineItem as a dict, and back
ItemFields(item) ==
    [quantity |-> item.quantity, description |-> item.description,
     unit_price |-> item.unit_price, line_total |-> item.line_total]

\* ParsedInvoice.model_dump(): the dict of the fields, the line items as dicts
model_dump(invoice) ==
    [invoice_id |-> invoice.invoice_id,
     vendor_name |-> invoice.vendor_name,
     invoice_number |-> invoice.invoice_number,
     date |-> invoice.date,
     total_amount |-> invoice.total_amount,
     tax_amount |-> invoice.tax_amount,
     gst_number |-> invoice.gst_number,
     line_items |-> Tuple([k \in 1..Len(invoice.line_items) |->
                             ItemFields(invoice.line_items[k])],
                          Len(invoice.line_items)),
     raw_text |-> invoice.raw_text]

\* ParsedInvoice(**invoice_data): the model of the dict's fields
ParsedInvoice(invoice_data) ==
    [invoice_id |-> invoice_data.invoice_id,
     vendor_name |-> invoice_data.vendor_name,
     invoice_number |-> invoice_data.invoice_number,
     date |-> invoice_data.date,
     total_amount |-> invoice_data.total_amount,
     tax_amount |-> invoice_data.tax_amount,
     gst_number |-> invoice_data.gst_number,
     line_items |-> Tuple([k \in 1..Len(invoice_data.line_items) |->
                             ItemFields(invoice_data.line_items[k])],
                          Len(invoice_data.line_items)),
     raw_text |-> invoice_data.raw_text]

\* (a variant of StoreInvoice that replaces the store by the one record)
StoreInvoiceAlone(db, parsed_invoice) ==
    DictPut(EmptyDict, parsed_invoice.invoice_id, model_dump(parsed_invoice))

\* The storage step of upload_invoice (line 395)
StoreInvoice(db, parsed_invoice) ==
    DictPut(db, parsed_invoice.invoice_id, model_dump(parsed_invoice))

\* The record returned at line 397 is rendered as JSON by the framework (line 369,
\* response_model=ParsedInvoice), after the handler and outside its try.  JSON has
\* no inf and no nan: rendering a record that holds one raises ValueError and the
\* answer is a bare 500 with the text "Internal Server Error".
JsonCompliant(invoice) ==
    \A v \in {invoice.total_amount, invoice.tax_amount}
             \cup UNION {{invoice.line_items[k].quantity,
                          invoice.line_items[k].unit_price,
                          invoice.line_items[k].line_total} :
                           k \in 1..Len(invoice.line_items)} :
        v = None \/ Abs(v[1]) \notin {Inf, NaN}

\* The except clauses of upload_invoice (lines 399-410): the answer to exception e
\* raised after the stages of trace
UploadFailure(e, trace) ==
    IF IsInstance(e, "RuntimeError") THEN Answer("upload", 500, StrExc(e), trace)
    ELSE IF IsInstance(e, "ValueError")
    THEN Answer("upload", 422, ProcessingPrefix \o StrExc(e), trace)
    ELSE Answer("upload", 500, UnexpectedPrefix \o StrExc(e), trace)

\* upload_invoice (lines 369-410) for a request with the declared content_type and
\* the file, the engine answering as engine, the uuid4 drawn being invoice_id:
\* [answer, db], the answer and the store afterwards.  The record is stored
\* (line 395) before it is returned and rendered.
UploadSuccess(db, parsed_invoice) ==
    [answer |-> IF JsonCompliant(parsed_invoice)
                THEN [Answer("upload", 200, "",
                             <<"read", "preprocess", "ocr", "parse", "store">>)
                      EXCEPT !.invoice = Some(parsed_invoice)]
                ELSE Answer("upload", 500, "Internal Server Error",
                            <<"read", "preprocess", "ocr", "parse", "store">>),
     db |-> StoreInvoice(db, parsed_invoice)]

UploadAfterOcr(ocr, invoice_id, db) ==
    IF ocr.exc.raised
    THEN [answer |-> UploadFailure(ocr.exc, <<"read", "preprocess", "ocr">>), db |-> db]
    ELSE IF Strip(ocr.text) = ""
    THEN [answer |-> UploadFailure(Raise("HTTPException", "500: " \o NoTextDetail),
                                   <<"read", "preprocess", "ocr">>),
          db |-> db]
    ELSE CHOOSE result \in {UploadSuccess(db, parsed_invoice) :
                               parsed_invoice \in {parse_invoice_data(ocr.text, invoice_id)}} :
            TRUE

UploadAfterPreprocess(pre, engine, invoice_id, db, has_ocr_deps) ==
    IF pre.raised
    THEN [answer |-> UploadFailure(pre, <<"read", "preprocess">>), db |-> db]
    ELSE UploadAfterOcr(extract_text_tesseract(engine, has_ocr_deps), invoice_id, db)

\* (a variant of RejectedType that lets every content type pass)
RejectedTypeNever(content_type) == FALSE

\* The test of line 375: the declared content type is not an accepted one
RejectedType(content_type) == content_type \notin AcceptedTypes

\* The answer of line 376
InvalidTypeAnswer == Answer("upload", 400, InvalidTypeDetail, <<>>)

upload_invoice(content_type, file, engine, invoice_id, db, has_ocr_deps) ==
    IF RejectedType(content_type)
    THEN [answer |-> InvalidTypeAnswer, db |-> db]
    ELSE UploadAfterPreprocess(preprocess_image(file, has_ocr_deps), engine, invoice_id,
                               db, has_ocr_deps)

\* download_csv (lines 413-438): the answer; the store is not written
download_csv(invoice_id, db) ==
    LET invoice_data == DictGet(db, invoice_id)
    IN  IF invoice_data = None
        THEN [Answer("download", 404, "Invoice with ID " \o invoice_id \o " not found.", <<>>)
              EXCEPT !.invoice_id = invoice_id]
        ELSE [Answer("download", 200, "", <<>>)
              EXCEPT !.invoice_id = invoice_id,
                     !.csv = generate_csv_string(ParsedInvoice(invoice_data[1]))]

\* root (lines 364-367)
root == Answer("root", 200, "OCR API is running. Upload invoices to /upload-invoice.", <<>>)

(***************************************************************************)
(* The backend as a state machine: one action for each request.            *)
(***************************************************************************)
MaxUploads == 2

Uuids == {Uuid(k) : k \in 1..MaxUploads}
RequestIds == Uuids \cup {"no-such-id"}

\* The handler calls of ConcSpec, and a call that has not come in yet.
MaxRequests == 3
Requests == 1..MaxRequests
IdleRequest ==
    [pc |-> "idle", op |-> "none", content_type |-> "", file |-> "", engine |-> None,
     beside |-> {}, answer |-> NoAnswer]

Init ==
    /\ HAS_OCR_DEPS \in BOOLEAN
    /\ MOCK_DATABASE = EmptyDict
    /\ returned = EmptyDict
    /\ response = NoAnswer
    /\ requests = [r \in Requests |-> IdleRequest]
    /\ suspended = <<>>
    /\ raw_text = ""
    /\ parsed = None
    /\ report = None

\* The uploads of Spec that may wait in file.read() at the same time.
MaxSuspended == 1

\* s without its i-th element
RemoveAt(s, i) == SubSeq(s, 1, i - 1) \o SubSeq(s, i + 1, Len(s))

\* POST /upload-invoice up to its await (lines 375-379): an upload of a type that
\* is not accepted is answered at once (line 376), any other is suspended in
\* file.read() and other calls run before it resumes.
UploadInvoiceCalled ==
    \E content_type \in ContentTypes, file \in Files :
        IF RejectedType(content_type)
        THEN /\ response' = [InvalidTypeAnswer EXCEPT !.content_type = content_type,
                                                     !.file = file.name]
             /\ UNCHANGED <<HAS_OCR_DEPS, MOCK_DATABASE, returned, suspended,
                            parseVars, requests>>
        ELSE /\ Len(suspended) < MaxSuspended
             /\ suspended' = Append(suspended,
                                    [content_type |-> content_type, file |-> file])
             /\ UNCHANGED <<HAS_OCR_DEPS, MOCK_DATABASE, returned, response,
                            parseVars, requests>>

\* POST /upload-invoice from its await to its answer (lines 379-410).  uuid4 draws
\* an identifier no earlier call drew (each one drawn was stored at line 395); the
\* model has MaxUploads of them and leaves out the step that would store one
\* record more.
UploadInvoiceResumed ==
    \E i \in 1..Len(suspended), engine \in EngineOutcomes,
       invoice_id \in IF Uuids \subseteq DOMAIN MOCK_DATABASE
                      THEN {Uuid(MaxUploads + 1)} ELSE Uuids \ DOMAIN MOCK_DATABASE :
        \E result \in {upload_invoice(suspended[i].content_type, suspended[i].file,
                                      engine, invoice_id, MOCK_DATABASE, HAS_OCR_DEPS)} :
            LET invoked == HAS_OCR_DEPS /\ Len(result.answer.trace) >= 3
            IN  /\ result.db # MOCK_DATABASE => invoice_id \in Uuids
                /\ response' = [result.answer EXCEPT
                                  !.content_type = suspended[i].content_type,
                                  !.file = suspended[i].file.name,
                                  !.engine = IF invoked THEN Some(engine) ELSE None]
                /\ MOCK_DATABASE' = result.db
                /\ returned' = IF result.answer.status = 200
                               THEN DictPut(returned, invoice_id, result.answer.invoice[1])
                               ELSE returned
                /\ suspended' = RemoveAt(suspended, i)
                /\ UNCHANGED <<HAS_OCR_DEPS, parseVars, requests>>

\* GET /download-csv/{invoice_id}
DownloadCsv ==
    \E invoice_id \in RequestIds :
        /\ response' = download_csv(invoice_id, MOCK_DATABASE)
        /\ UNCHANGED <<HAS_OCR_DEPS, MOCK_DATABASE, returned, suspended, parseVars,
                       requests>>

\* GET /
Root ==
    /\ response' = root
    /\ UNCHANGED <<HAS_OCR_DEPS, MOCK_DATABASE, returned, suspended, parseVars, requests>>

Next == UploadInvoiceCalled \/ UploadInvoiceResumed \/ DownloadCsv \/ Root

Spec == Init /\ [][Next]_vars

(***************************************************************************)
(* The handlers side by side.  Both are coroutines on one event loop       *)
(* (uvicorn.run, line 451): a call runs without interruption from one      *)
(* await to the next.  upload_invoice has one await, the reading of the    *)
(* file (line 379); download_csv has none.  An upload is therefore two     *)
(* steps, BeginUpload up to the await and ResumeUpload from it to the      *)
(* answer, and other calls may run between the two.                        *)
(***************************************************************************)
\* The uploads of ConcSpec: declared type, file and what the engine makes of it.
ConcUploads ==
    {[content_type |-> "text/plain", file |-> "scan.png", engine |-> None],
     [content_type |-> "image/png", file |-> "scan.png",
      engine |-> Some([raises |-> FALSE, text |-> "TOTAL Rs. " \o Nines(FloatMaxDigits + 1)])],
     [content_type |-> "image/tiff", file |-> "scan.tiff",
      engine |-> Some([raises |-> FALSE,
                       text |-> "Acme Corp\nInvoice No: ACME-INV-45678\nITEM NAME 2 Rs. 300.00 Rs. 100.00"])]}

FileNamed(name) == CHOOSE f \in Files : f.name = name

\* uuid.uuid4() (line 253): an identifier that was not issued before; each one
\* issued was stored at line 395
uuid4(issued) == {Uuid(k) : k \in Requests} \ issued

\* upload_invoice up to its await (lines 375-379): the type test answers 400 at
\* once, otherwise the call is suspended in file.read()
BeginUpload(r) ==
    /\ requests[r].pc = "idle"
    /\ \E u \in ConcUploads :
          requests' =
            [requests EXCEPT ![r] =
               IF RejectedType(u.content_type)
               THEN [IdleRequest EXCEPT
                       !.pc = "done", !.op = "upload",
                       !.content_type = u.content_type, !.file = u.file,
                       !.answer = InvalidTypeAnswer]
               ELSE [IdleRequest EXCEPT
                       !.pc = "reading", !.op = "upload",
                       !.content_type = u.content_type, !.file = u.file,
                       !.engine = u.engine]]
    /\ UNCHANGED <<HAS_OCR_DEPS, MOCK_DATABASE, returned, response, suspended, parseVars>>

\* upload_invoice from its await to its answer (lines 379-410), on the store as it
\* is when the call resumes.  beside notes the calls that were suspended then.
ResumeUpload(r) ==
    /\ requests[r].pc = "reading"
    /\ \E invoice_id \in uuid4(DOMAIN MOCK_DATABASE) :
        \E result \in {upload_invoice(requests[r].content_type,
                                      FileNamed(requests[r].file),
                                      IF requests[r].engine = None
                                      THEN [raises |-> FALSE, text |-> ""]
                                      ELSE requests[r].engine[1],
                                      invoice_id, MOCK_DATABASE, HAS_OCR_DEPS)} :
            /\ requests' =
                  [requests EXCEPT ![r].pc = "done",
                                   ![r].answer = result.answer,
                                   ![r].beside =
                                      {q \in Requests \ {r} : requests[q].pc = "reading"}]
            /\ MOCK_DATABASE' = result.db
    /\ UNCHANGED <<HAS_OCR_DEPS, returned, response, suspended, parseVars>>

\* download_csv (lines 413-438), in one step
Download(r) ==
    /\ requests[r].pc = "idle"
    /\ \E invoice_id \in {Uuid(k) : k \in Requests} \cup {"no-such-id"} :
          requests' = [requests EXCEPT ![r] =
                         [IdleRequest EXCEPT
                            !.pc = "done", !.op = "download",
                            !.answer = download_csv(invoice_id, MOCK_DATABASE)]]
    /\ UNCHANGED <<HAS_OCR_DEPS, MOCK_DATABASE, returned, response, suspended, parseVars>>

ConcNext == \E r \in Requests : BeginUpload(r) \/ ResumeUpload(r) \/ Download(r)

ConcSpec == Init /\ [][ConcNext]_vars

(***************************************************************************)
(* The extractor and the report builder on their own, on every text of     *)
(* Texts.                                                                  *)
(***************************************************************************)
ParseInit ==
    /\ raw_text \in Texts
    /\ parsed = None
    /\ report = None
    /\ HAS_OCR_DEPS = FALSE
    /\ MOCK_DATABASE = EmptyDict
    /\ returned = EmptyDict
    /\ response = NoAnswer
    /\ requests = [r \in Requests |-> IdleRequest]
    /\ suspended = <<>>

Extract ==
    /\ parsed = None
    /\ parsed' = Some(parse_invoice_data(raw_text, Uuid(0)))
    /\ UNCHANGED <<raw_text, report, apiVars>>

Export ==
    /\ parsed # None
    /\ report = None
    /\ report' = Some(generate_csv_string(parsed[1]))
    /\ UNCHANGED <<raw_text, parsed, apiVars>>

ParseNext == Extract \/ Export

ParseSpec == ParseInit /\ [][ParseNext]_vars

(***************************************************************************)
(* Reading a report back, as csv.reader does with the default dialect: a   *)
(* row ends at a "\r\n" outside quotes, a cell at a comma outside quotes,  *)
(* a quoted cell loses its quotes and has its doubled quotes halved.  An   *)
(* empty row reads as no cells.                                            *)
(***************************************************************************)
QuotesOf(s) == {i \in 1..Len(s) : Ch(s, i) = "\""}
OutsideQuotes(quotes, i) == Cardinality({q \in quotes : q < i}) % 2 = 0

RECURSIVE Undouble(_)
Undouble(s) ==
    IF Len(s) < 2 THEN s
    ELSE IF SubSeq(s, 1, 2) = "\"\"" THEN "\"" \o Undouble(SubSeq(s, 3, Len(s)))
    ELSE Head(s) \o Undouble(Tail(s))

ReadCell(c) ==
    IF Len(c) >= 2 /\ Ch(c, 1) = "\"" /\ Ch(c, Len(c)) = "\""
    THEN Undouble(SubSeq(c, 2, Len(c) - 1))
    ELSE c

\* the pieces of s between the cuts (positions of s, each width characters wide)
PiecesAt(s, cuts, n, width) ==
    Tuple([k \in 1..(n + 1) |->
             SubSeq(s,
                    IF k = 1 THEN 1 ELSE KthOf(cuts, k - 1) + width,
                    IF k = n + 1 THEN Len(s) ELSE KthOf(cuts, k) - 1)],
          n + 1)

CommasOf(r, quotes) == {i \in 1..Len(r) : Ch(r, i) = "," /\ OutsideQuotes(quotes, i)}
CellsAt(r, commas) ==
    LET pieces == PiecesAt(r, commas, Cardinality(commas), 1)
    IN  Tuple([k \in 1..Len(pieces) |-> ReadCell(pieces[k])], Len(pieces))
ReadRow(r) == IF r = "" THEN <<>> ELSE CellsAt(r, CommasOf(r, QuotesOf(r)))

RowEndsOf(s, quotes) ==
    {i \in 1..(Len(s) - 1) : SubSeq(s, i, i + 1) = "\r\n" /\ OutsideQuotes(quotes, i)}
RowsAt(s, ends) ==
    LET pieces == PiecesAt(s, ends, Cardinality(ends), 2)
    IN  Tuple([k \in 1..(Len(pieces) - 1) |-> ReadRow(pieces[k])], Len(pieces) - 1)
ReadCsv(s) == RowsAt(s, RowEndsOf(s, QuotesOf(s)))

\* cell holds the string field v: its text, or nothing when v is absent
StringCell(cell, v) == IF v = None THEN cell = "" ELSE cell = v[1]
\* cell holds the amount v: a number equal to it, or nothing when v is absent
AmountCell(cell, v) == IF v = None THEN cell = "" ELSE cell # "" /\ PyFloat(cell) = v

\* the header rows of a report of invoice: seven (label, value) rows in the fixed order
HeaderHolds(rows, invoice) ==
    /\ Len(rows) >= 8
    /\ \A k \in 2..8 : Len(rows[k]) = 2
    /\ <<rows[2][1], rows[3][1], rows[4][1], rows[5][1], rows[6][1], rows[7][1], rows[8][1]>>
         = <<"Invoice ID", "Vendor Name", "Invoice Number", "Date", "GST Number",
             "Tax Amount", "Total Amount">>
    /\ rows[2][2] = invoice.invoice_id
    /\ StringCell(rows[3][2], invoice.vendor_name)
    /\ StringCell(rows[4][2], invoice.invoice_number)
    /\ StringCell(rows[5][2], invoice.date)
    /\ StringCell(rows[6][2], invoice.gst_number)
    /\ AmountCell(rows[7][2], invoice.tax_amount)
    /\ AmountCell(rows[8][2], invoice.total_amount)

\* the line-item rows of a report: after the title, the seven header rows, the blank
\* row, the section title and the column titles, one row for each item, in order
ItemsHold(rows, items) ==
    /\ Len(rows) = 11 + Len(items)
    /\ rows[9] = <<>>
    /\ \A k \in 1..Len(items) :
         /\ Len(rows[11 + k]) = 4
         /\ rows[11 + k][1] = items[k].description
         /\ AmountCell(rows[11 + k][2], items[k].quantity)
         /\ AmountCell(rows[11 + k][3], items[k].unit_price)
         /\ AmountCell(rows[11 + k][4], items[k].line_total)

Renders(csv, invoice) ==
    /\ HeaderHolds(ReadCsv(csv), invoice)
    /\ ItemsHold(ReadCsv(csv), invoice.line_items)

\* C10: the report of every parsed invoice reads back as seven header rows in the
\* fixed order, each present field reproduced (strings equal, amounts numerically
\* equal), each absent field an empty cell, and one row for each line item in order.
C10_ReportRoundTrip ==
    report # None => Renders(report[1], parsed[1])

\* C10 witness: a report was built of an invoice with both amounts present, an absent
\* header field and a line item whose description needs quoting
C10_Witness ==
    /\ report # None
    /\ parsed[1].tax_amount # None
    /\ parsed[1].total_amount # None
    /\ parsed[1].vendor_name = None
    /\ Len(parsed[1].line_items) = 1
    /\ Contains(parsed[1].line_items[1].description, ",")

(***************************************************************************)
(* The field extractor and the line-item reconstructor (ParseSpec).        *)
(***************************************************************************)
GrandTotalLine == "GRAND TOTAL: Rs. 880.00"

\* C2: when the text is the monetary line "GRAND TOTAL: Rs. 880.00" (below any number
\* of address lines), the extracted total_amount is present and equals 880.00.
C2_GrandTotalParsed ==
    (/\ parsed # None
     /\ raw_text \in {Join(Pad(j) \o <<GrandTotalLine>>, "\n") : j \in 0..MaxPad})
    => parsed[1].total_amount = Some([digits |-> "88", decpt |-> 3])

\* The vendor signature occurs, whatever its case, in one of the first n lines
SignatureWithin(lines, n) ==
    \E k \in 1..Len(lines) : k <= n /\ Contains(Upper(lines[k]), "ACME CORP")

\* invoice_number and date come from the override patterns alone when the overlay is
\* selected and from the base patterns when it is not; every other field comes from
\* its base pattern
FieldsHold(selected, invoice, text) ==
    /\ invoice.invoice_number
         = ExtractField("invoice_number",
                        IF selected THEN PatAcmeInvoiceNumber ELSE PatInvoiceNumber, text)
    /\ invoice.date
         = ExtractField("date", IF selected THEN PatAcmeDate ELSE PatDate, text)
    /\ invoice.total_amount = ExtractField("total_amount", PatTotalAmount, text)
    /\ invoice.tax_amount = ExtractField("tax_amount", PatTaxAmount, text)
    /\ invoice.vendor_name = ExtractField("vendor_name", PatVendorName, text)
    /\ invoice.gst_number = ExtractField("gst_number", PatGstNumber, text)

AcmeExample == "Invoice No: ACME-INV-45678"

\* C7 as claimed: the vendor overlay is selected exactly when "Acme Corp" occurs, in
\* any case, within the first 5 lines; then invoice_number and date come from the
\* override patterns alone and every other field from its base pattern, and a text
\* containing "Invoice No: ACME-INV-45678" yields the invoice number "45678".
C7_VendorOverlay ==
    parsed # None
    => LET selected == SignatureWithin(Split(raw_text, "\n"), VendorLines)
       IN  /\ FieldsHold(selected, parsed[1], raw_text)
           /\ (selected /\ Contains(raw_text, AcmeExample))
                => parsed[1].invoice_number = Some("45678")

\* needle (in upper case) at position i of hay, the case of hay's letters set aside
StartsAtAnyCase(hay, needle, i) ==
    /\ i + Len(needle) - 1 <= Len(hay)
    /\ \A k \in 1..Len(needle) : ToUpperCh(Ch(hay, i + k - 1)) = Ch(needle, k)

\* the places of text where "ACME-INV-" and a digit begin, in any case
AcmeNumberPlaces(text) ==
    {i \in 1..Len(text) :
       /\ StartsAtAnyCase(text, "ACME-INV-", i)
       /\ i + 9 <= Len(text) /\ Ch(text, i + 9) \in Digits}

\* the digits from position i of text up to the first character that is not one
DigitsFrom(text, i) ==
    SubSeq(text, i,
           CHOOSE j \in i..Len(text) :
             /\ \A k \in i..j : Ch(text, k) \in Digits
             /\ j = Len(text) \/ Ch(text, j + 1) \notin Digits)

\* the digits after the first "ACME-INV-" that a digit follows, None without one
FirstAcmeNumber(text) ==
    IF AcmeNumberPlaces(text) = {} THEN None
    ELSE Some(DigitsFrom(text, 9 + CHOOSE i \in AcmeNumberPlaces(text) :
                                      \A j \in AcmeNumberPlaces(text) : i <= j))

\* C7 as amended: the vendor overlay is selected exactly when "Acme Corp" occurs, in
\* any case, within the first 5 lines; then invoice_number and date come from the
\* override patterns alone and every other field from its base pattern.  The
\* invoice number is then the whole run of digits after the first "ACME-INV-" that
\* a digit follows: a text containing "Invoice No: ACME-INV-45678" yields "45678"
\* when no such place comes before that one and no digit follows the 45678.
C7_VendorOverlayFirstMatch ==
    parsed # None
    => LET selected == SignatureWithin(Split(raw_text, "\n"), VendorLines)
       IN  /\ FieldsHold(selected, parsed[1], raw_text)
           /\ selected => parsed[1].invoice_number = FirstAcmeNumber(raw_text)
           /\ \A p \in 1..Len(raw_text) :
                 (/\ selected
                  /\ StartsAt(raw_text, AcmeExample, p)
                  /\ \A i \in AcmeNumberPlaces(raw_text) : i >= p + 12
                  /\ \/ p + Len(AcmeExample) > Len(raw_text)
                     \/ Ch(raw_text, p + Len(AcmeExample)) \notin Digits)
                 => parsed[1].invoice_number = Some("45678")

\* C7 witness: the signature, in lower case, on line 5, selects the overlay, and of
\* two numbers the override pattern matches the first is the invoice number
C7_Witness ==
    /\ parsed # None
    /\ raw_text = Join(Pad(4) \o <<"acme corp ref ACME-INV-001", AcmeExample>>, "\n")
    /\ parsed[1].invoice_number = Some("001")
    /\ parsed[1].date = None

\* C8: a line item's quantity is round(total / rate) when both amounts parsed (a total
\* of 0 included) and rate > 0, and 1.0 in every other case.
C8_QuantityRule ==
    parsed # None
    => \A k \in 1..Len(parsed[1].line_items) :
         LET item == parsed[1].line_items[k]
         IN  IF /\ item.unit_price # None
                /\ item.line_total # None
                /\ Positive(item.unit_price[1])
             THEN item.quantity = RoundDiv(item.line_total[1], item.unit_price[1])
             ELSE item.quantity = Some(IntToFloat(1))

\* C9: every line item of a parsed invoice has a quantity above zero and a
\* description that is not empty.
C9_LineItemValid ==
    parsed # None
    => \A k \in 1..Len(parsed[1].line_items) :
         /\ parsed[1].line_items[k].quantity # None
         /\ Positive(parsed[1].line_items[k].quantity[1])
         /\ parsed[1].line_items[k].description # ""

(***************************************************************************)
(* The REST handlers (Spec).                                               *)
(***************************************************************************)
Stages(answer) == {answer.trace[k] : k \in 1..Len(answer.trace)}

\* the answer to an upload whose engine call raised: its status and message
EngineErrorAnswer ==
    UploadFailure(extract_text_tesseract([raises |-> TRUE, text |-> EngineError], TRUE).exc,
                  <<"read", "preprocess", "ocr">>)

\* C1: an upload whose engine call returns empty or whitespace-only text fails with an
\* outcome of its own: not the engine-error outcome, not the generic
\* unexpected-fault outcome; nothing is stored.
C1_NoLegibleTextOutcome ==
    (/\ response.op = "upload"
     /\ response.engine # None
     /\ ~response.engine[1].raises
     /\ Strip(response.engine[1].text) = "")
    => /\ response.status >= 400
       /\ "store" \notin Stages(response)
       /\ <<response.status, response.detail>>
            # <<EngineErrorAnswer.status, EngineErrorAnswer.detail>>
       /\ ~StartsAt(response.detail, UnexpectedPrefix, 1)

\* C3: every record a successful upload returned stays stored under its own
\* identifier, and a retrieval of that identifier answers with a report that renders
\* the header fields and the line items of the record returned.
C3_RetrievalRendersReturned ==
    \A X \in DOMAIN returned :
        /\ returned[X].invoice_id = X
        /\ X \in DOMAIN MOCK_DATABASE
        /\ MOCK_DATABASE[X].invoice_id = X
        /\ (response.op = "download" /\ response.invoice_id = X)
             => /\ response.status = 200
                /\ Renders(response.csv, returned[X])

\* C3 witness: two different records are stored and the first is retrieved
C3_Witness ==
    /\ DOMAIN returned = Uuids
    /\ returned[Uuid(1)].raw_text # returned[Uuid(2)].raw_text
    /\ response.op = "download"
    /\ response.invoice_id = Uuid(1)
    /\ response.status = 200

\* C4: an upload declaring a content type outside the accepted set is rejected with
\* the invalid-type answer before any stage runs (no read, no preprocessing, no
\* engine call) and the store is left as it was.
C4_UnsupportedTypeRejected ==
    [][(response'.op = "upload" /\ response'.content_type \notin AcceptedTypes)
       => /\ response'.status = 400
          /\ response'.detail = InvalidTypeDetail
          /\ response'.trace = <<>>
          /\ response'.engine = None
          /\ MOCK_DATABASE' = MOCK_DATABASE]_vars

\* C4 witness: a text/plain upload was rejected while the store holds a record
C4_Witness ==
    /\ response.op = "upload"
    /\ response.content_type = "text/plain"
    /\ response.status = 400
    /\ MOCK_DATABASE # EmptyDict

\* C5: a retrieval of an identifier no successful upload returned answers not-found
\* and leaves the store as it was.
C5_UnknownIdNotFound ==
    [][(response'.op = "download" /\ response'.invoice_id \notin DOMAIN returned)
       => /\ response'.status = 404
          /\ MOCK_DATABASE' = MOCK_DATABASE]_vars

\* the files no decoder accepts
Undecodable == {f.name : f \in {g \in Files : ~g.loads /\ g.cv \in {"none", "error"}}}

\* C6: in both startup modes, an upload of an accepted type whose bytes no decoder
\* accepts fails with the file-processing answer (422), the engine is not reached
\* and nothing is stored.
C6_DecodeFailureOutcome ==
    (/\ response.op = "upload"
     /\ response.content_type \in AcceptedTypes
     /\ response.file \in Undecodable)
    => /\ response.status = 422
       /\ StartsAt(response.detail, ProcessingPrefix, 1)
       /\ response.trace = <<"read", "preprocess">>

\* the store after is the store before with one entry added under a key it did not
\* hold, every entry it held kept as it was
AddsOneEntry(before, after, key) ==
    /\ key \notin DOMAIN before
    /\ DOMAIN after = DOMAIN before \cup {key}
    /\ \A k \in DOMAIN before : after[k] = before[k]

\* C11: the store changes only in a step that answers an upload with success, and
\* then by one entry added under the identifier of the record returned; a failed
\* upload and a retrieval leave the store as it was, and no step changes or removes
\* an entry.
C11_StoreFrame ==
    [][/\ (\A k \in DOMAIN MOCK_DATABASE :
              k \in DOMAIN MOCK_DATABASE' /\ MOCK_DATABASE'[k] = MOCK_DATABASE[k])
       /\ (MOCK_DATABASE' # MOCK_DATABASE)
            => /\ response'.op = "upload"
               /\ response'.status = 200
               /\ AddsOneEntry(MOCK_DATABASE, MOCK_DATABASE', response'.invoice[1].invoice_id)
       /\ (\/ response'.op = "download"
           \/ response'.op = "upload" /\ response'.status # 200)
            => MOCK_DATABASE' = MOCK_DATABASE]_vars

\* the uploads that answered with success, and the identifier each was given
Successful(reqs) ==
    {r \in Requests : reqs[r].op = "upload" /\ reqs[r].answer.status = 200}
GivenId(reqs, r) == reqs[r].answer.invoice[1].invoice_id

\* C12: in every interleaving of uploads (each suspended while its bytes are read)
\* and retrievals, the step in which an upload succeeds adds one entry to the store
\* under the identifier it returns and every other step of a request leaves the
\* store alone, no two successful uploads are given the same identifier, and once
\* every request has answered the store holds exactly one entry for each successful
\* upload, equal to the record that upload returned.
C12_OneEntryPerUpload ==
    /\ [][\A r \in Requests :
            requests'[r] # requests[r]
              => IF r \in Successful(requests')
                 THEN AddsOneEntry(MOCK_DATABASE, MOCK_DATABASE', GivenId(requests', r))
                 ELSE MOCK_DATABASE' = MOCK_DATABASE]_vars
    /\ [](\A r \in Successful(requests), q \in Successful(requests) :
            r # q => GivenId(requests, r) # GivenId(requests, q))
    /\ []((\A r \in Requests : requests[r].pc = "done")
            => /\ DOMAIN MOCK_DATABASE
                    = {GivenId(requests, r) : r \in Successful(requests)}
               /\ Cardinality(DOMAIN MOCK_DATABASE) = Cardinality(Successful(requests))
               /\ \A r \in Successful(requests) :
                    MOCK_DATABASE[GivenId(requests, r)]
                        = model_dump(requests[r].answer.invoice[1]))

(***************************************************************************)
(* The line-item reconstructor (ParseSpec).                                *)
(***************************************************************************)
SummaryKeywords == {"SUBTOTAL", "TAX", "TOTAL", "BALANCE", "GST", "PAYABLE"}
HasSummaryKeyword(line) ==
    \E i \in 1..Len(line), kw \in SummaryKeywords : StartsAtAnyCase(line, kw, i)
\* "ITEM NAME " and a digit
IsHeaderLine(line) ==
    \E i \in 1..(Len(line) - 10) :
        StartsAtAnyCase(line, "ITEM NAME ", i) /\ Ch(line, i + 10) \in Digits

\* the lines from the first of the indexes headers on; none when there is none
LinesFrom(lines, headers) ==
    IF headers = {} THEN <<>>
    ELSE SubSeq(lines, CHOOSE i \in headers : \A j \in headers : i <= j, Len(lines))
LinesFromHeaderOf(lines) ==
    LinesFrom(lines, {i \in 1..Len(lines) : IsHeaderLine(lines[i])})

\* the lines of text from the first header line on; none when there is no header
LinesFromHeader(text) == LinesFromHeaderOf(Split(text, "\n"))

\* a line without summary keyword that the line-item pattern matches
IsItemLine(line) == ~HasSummaryKeyword(line) /\ Search(PatLineItem, line) # None

\* the rate and the total the pattern captures on an item line
CapturedRate(line) == parse_float(MatchGroup(Search(PatLineItem, line)[1], line, 1))
CapturedTotal(line) == parse_float(MatchGroup(Search(PatLineItem, line)[1], line, 2))

\* total / rate is computed (both parsed and not zero, rate above zero) and is not a
\* finite number
IsFiniteBin(quotient) == quotient # None /\ ~quotient[1].inf
NotFinite(rate, total) ==
    /\ rate # None /\ total # None
    /\ rate[1] # Zero /\ total[1] # Zero
    /\ ~IsFiniteBin(BinDiv(BinOfFloat(total[1]), BinOfFloat(rate[1])))
QuotientNotFinite(line) == NotFinite(CapturedRate(line), CapturedTotal(line))

IsFiniteItemLine(line) == IsItemLine(line) /\ ~QuotientNotFinite(line)

\* items are the items of the lines sel, one for each in their order
ItemsAreOf(items, sel) ==
    /\ Len(items) = Len(sel)
    /\ \A k \in 1..Len(sel) :
         /\ items[k].description = "ITEM NAME " \o Words(sel[k])[3]
         /\ items[k].unit_price = CapturedRate(sel[k])
         /\ items[k].line_total = CapturedTotal(sel[k])

\* C13 as stated: the line items are, in document order, one for each line at or
\* after the first header line that has no summary keyword and matches the
\* line-item pattern (none when there is no header line).
C13_OneItemPerItemLine ==
    parsed # None
    => ItemsAreOf(parsed[1].line_items,
                  SelectSeq(LinesFromHeader(raw_text), IsItemLine))

\* C13 amended: the line items are, in document order, one for each line at or after
\* the first header line that has no summary keyword, matches the line-item pattern
\* and whose quotient total / rate, where the quantity is computed from it, is a
\* finite number; a line whose quotient is infinite or not a number is skipped
\* silently, as are the lines before the header and the summary lines.
C13_ItemLines ==
    parsed # None
    => ItemsAreOf(parsed[1].line_items,
                  SelectSeq(LinesFromHeader(raw_text), IsFiniteItemLine))

\* C13 witness: address lines before the header, then an item line that yields its
\* item and a line the pattern matches that is skipped for its summary keyword
C13_Witness ==
    /\ parsed # None
    /\ Len(parsed[1].line_items) = 1
    /\ Len(LinesFromHeader(raw_text)) = 2
    /\ Len(Split(raw_text, "\n")) > 2
    /\ \E k \in 1..2 :
         /\ HasSummaryKeyword(LinesFromHeader(raw_text)[k])
         /\ Search(PatLineItem, LinesFromHeader(raw_text)[k]) # None

====
